---- MODULE Spec2Model ----
(***************************************************************************)
(* Model of src/app.py: the Flask handler explain_ayah (POST /explain),    *)
(* the two fetchers get_ayah_text and get_tafsir_data, the prompt          *)
(* assembler generate_explanation_prompt and the module-level groq_client. *)
(*                                                                         *)
(* Python values are records [t, n, s]: t is the type, n the numeric       *)
(* payload, s the text payload.  A text is a sequence of tokens; the token *)
(* " " is whitespace.  Requests are served one at a time; every line of    *)
(* the handler that can return, raise or call out is one action.           *)
(*                                                                         *)
(* requests is modelled as version >= 2.27, where the JSONDecodeError of   *)
(* Response.json() is a RequestException.                                  *)
(***************************************************************************)
EXTENDS Integers, Sequences, FiniteSets, TLC

\* ---------------------------------------------------------------- bounds
MaxRequests == 2
MaxInt == 1

\* ---------------------------------------------------------- Python values
JInt(k) == [t |-> "int", n |-> k, s |-> <<>>]
JFloat(h) == [t |-> "float", n |-> h, s |-> <<>>]
JStr(x) == [t |-> "str", n |-> 0, s |-> x]
JBool(k) == [t |-> "bool", n |-> k, s |-> <<>>]
JInf == [t |-> "inf", n |-> 0, s |-> <<>>]
JNaN == [t |-> "nan", n |-> 0, s |-> <<>>]
JNull == [t |-> "null", n |-> 0, s |-> <<>>]
JArr == [t |-> "array", n |-> 0, s |-> <<>>]

Digits == <<"0", "1", "2", "3", "4", "5", "6", "7", "8", "9">>

IsDigit(c) == \E d \in 1..10 : Digits[d] = c

DigitVal(c) == (CHOOSE d \in 1..10 : Digits[d] = c) - 1

RECURSIVE DigitsVal(_)
DigitsVal(x) ==
    IF x = <<>> THEN 0
    ELSE 10 * DigitsVal(SubSeq(x, 1, Len(x) - 1)) + DigitVal(x[Len(x)])

RECURSIVE NatToText(_)
NatToText(k) ==
    IF k < 10 THEN <<Digits[k + 1]>>
    ELSE NatToText(k \div 10) \o <<Digits[(k % 10) + 1]>>

IntToText(k) == IF k < 0 THEN <<"-">> \o NatToText(0 - k) ELSE NatToText(k)

RECURSIVE LStrip(_)
LStrip(x) == IF x # <<>> /\ x[1] = " " THEN LStrip(Tail(x)) ELSE x

RECURSIVE RStrip(_)
RStrip(x) ==
    IF x # <<>> /\ x[Len(x)] = " " THEN RStrip(SubSeq(x, 1, Len(x) - 1)) ELSE x

Strip(x) == RStrip(LStrip(x))

Return(v) == [exc |-> "none", val |-> v]

Raise(e) == [exc |-> e, val |-> JNull]

\* float h/2 truncated toward zero
Trunc(h) == IF h >= 0 THEN h \div 2 ELSE 0 - ((0 - h) \div 2)

StrToInt(x) ==
    LET t == Strip(x)
        signed == t # <<>> /\ t[1] \in {"-", "+"}
        body == IF signed THEN Tail(t) ELSE t
        mag == DigitsVal(body)
    IN  IF body # <<>> /\ \A i \in 1..Len(body) : IsDigit(body[i])
        THEN Return(JInt(IF signed /\ t[1] = "-" THEN 0 - mag ELSE mag))
        ELSE Raise("ValueError")

PyInt(v) ==
    CASE v.t \in {"int", "bool"} -> Return(JInt(v.n))
      [] v.t = "float" -> Return(JInt(Trunc(v.n)))
      [] v.t = "inf" -> Raise("OverflowError")
      [] v.t = "nan" -> Raise("ValueError")
      [] v.t = "str" -> StrToInt(v.s)
      [] OTHER -> Raise("TypeError")

Truthy(v) ==
    CASE v.t \in {"int", "float", "bool"} -> v.n # 0
      [] v.t \in {"inf", "nan"} -> TRUE
      [] v.t = "str" -> v.s # <<>>
      [] OTHER -> FALSE

PyStr(v) ==
    CASE v.t = "str" -> v.s
      [] v.t = "int" -> IntToText(v.n)
      [] v.t = "null" -> <<"None">>
      [] OTHER -> <<"?">>

\* ------------------------------------------------------ module constants
TAFSIR_SOURCES == <<"context", "classical", "modern">>

DATA_UNAVAILABLE_MESSAGE ==
    <<"Information from this source is currently unavailable or not found for this verse.">>

NOT_RETRIEVED == <<"Could not retrieve the translation for this verse.">>

NETWORK_ERROR == <<"Could not retrieve the translation due to a network error.">>

CLIENT_ERROR == <<"Groq client is not initialized. Check API key.">>

MISSING_ERROR == <<"Missing Surah or Ayah number">>

NUMBERS_ERROR == <<"Surah and Ayah must be numbers">>

MODEL_ERROR == <<"Failed to get explanation from the language model: ">>

\* ------------------------------------------------------------------ inputs
\* A request body: the JSON value that request.get_json() decodes.  n is the
\* value of a number or boolean and the length of a string, array or object; keys are
\* the members that the "in" operator finds among "surah" and "ayah" (keys of
\* an object, elements of an array, substrings of a string).
Body(t, n, keys, sv, av) ==
    [t |-> t, n |-> n, keys |-> keys, surah |-> sv, ayah |-> av]

NoData == Body("unset", 0, {}, JNull, JNull)

FieldVals ==
    {JInt(k) : k \in -1..MaxInt}
        \cup {JStr(<<" ", "2", " ">>), JStr(<<"x">>), JFloat(-1), JInf, JNaN,
              JNull, JArr}

Bodies ==
    {Body("null", 0, {}, JNull, JNull)}
        \cup {Body("boolean", k, {}, JNull, JNull) : k \in {0, 1}}
        \cup {Body("number", k, {}, JNull, JNull) : k \in {0, 5}}
        \cup {Body("string", 0, {}, JNull, JNull),
              Body("string", 10, {"surah", "ayah"}, JNull, JNull)}
        \cup {Body("array", 0, {}, JNull, JNull),
              Body("array", 2, {"surah", "ayah"}, JNull, JNull)}
        \cup {Body("object", 0, {}, JNull, JNull),
              Body("object", 1, {"surah"}, JInt(1), JNull),
              Body("object", 1, {"ayah"}, JNull, JInt(1))}
        \cup {Body("object", 2, {"surah", "ayah"}, sv, av) :
                sv \in FieldVals, av \in FieldVals}

\* The answer of an HTTP GET: a transport error, or a status and a payload.
\* top is the type of the payload's JSON value, code and data_t describe the
\* "code" and "data" members of the translation payload, text the "text"
\* member (of "data" for the translation API, of the payload for the
\* commentary API).
Http(err, status, json_ok, top, code, data_t, has_text, text) ==
    [err |-> err, status |-> status, json_ok |-> json_ok, top |-> top,
     code |-> code, data_t |-> data_t, has_text |-> has_text, text |-> text]

NoResponse == Http("unset", 0, FALSE, "none", 0, "none", FALSE, JNull)

VerseText == <<"In", " ", "the", " ", "name">>

TranslationResponses ==
    {Http("ConnectionError", 0, FALSE, "none", 0, "none", FALSE, JNull),
     Http("Timeout", 0, FALSE, "none", 0, "none", FALSE, JNull),
     Http("none", 404, TRUE, "object", 404, "string", FALSE, JNull),
     Http("none", 200, FALSE, "none", 0, "none", FALSE, JNull),
     Http("none", 200, TRUE, "array", 0, "none", FALSE, JNull),
     Http("none", 200, TRUE, "object", 404, "string", FALSE, JNull),
     Http("none", 200, TRUE, "object", 200, "missing", FALSE, JNull),
     Http("none", 200, TRUE, "object", 200, "null", FALSE, JNull),
     Http("none", 200, TRUE, "object", 200, "object", FALSE, JNull),
     Http("none", 200, TRUE, "object", 200, "object", TRUE, JStr(<<>>)),
     Http("none", 200, TRUE, "object", 200, "object", TRUE, JStr(VerseText))}

TafsirText == <<" ", "tafsir", " ", "text", " ">>

TafsirResponses ==
    {Http("ConnectionError", 0, FALSE, "none", 0, "none", FALSE, JNull),
     Http("none", 404, FALSE, "none", 0, "none", FALSE, JNull),
     Http("none", 200, FALSE, "none", 0, "none", FALSE, JNull),
     Http("none", 200, TRUE, "array", 0, "none", FALSE, JNull),
     Http("none", 200, TRUE, "object", 0, "none", FALSE, JNull),
     Http("none", 200, TRUE, "object", 0, "none", TRUE, JStr(<<>>)),
     Http("none", 200, TRUE, "object", 0, "none", TRUE, JStr(<<" ", " ">>)),
     Http("none", 200, TRUE, "object", 0, "none", TRUE, JStr(TafsirText)),
     Http("none", 200, TRUE, "object", 0, "none", TRUE, JNull),
     Http("none", 200, TRUE, "object", 0, "none", TRUE, JInt(7))}

\* The outcome of chat.completions.create: an exception, or a completion
\* with n_choices choices whose first message has the given content.
Completion(err, n_choices, content) ==
    [err |-> err, n_choices |-> n_choices, content |-> content]

NoCompletion == Completion("unset", 0, <<>>)

Completions ==
    {Completion("APIConnectionError", 0, <<>>),
     Completion("AuthenticationError", 0, <<>>),
     Completion("RateLimitError", 0, <<>>),
     Completion("none", 0, <<>>),
     Completion("none", 1, <<"### The Verse">>),
     Completion("none", 1, <<" ", "### Summary", " ">>)}

\* ------------------------------------------------------------------- state
\* groq_client      the module-level client: "Groq", or "None" when its
\*                  construction raised at import
\* pc               the line of explain_ayah the worker is at, "idle" between
\*                  requests, "done" once the answer is determined
\* served           requests answered so far
\* request          the body of the request being served
\* data .. chat_completion   the local variables of explain_ayah and of the
\*                  fetchers; response is the answer of the latest GET, src_i
\*                  the position of the loop over TAFSIR_SOURCES
\* calls            the outbound calls issued for the current request, in order
\* result           the answer to the current request
\* raised           the exception that left explain_ayah, and where it arose
VARIABLES groq_client, pc, served, request, data, surah, ayah, ayah_text,
          src_i, collected_data, tafsir_data, response, prompt,
          chat_completion, calls, result, raised

vars == <<groq_client, pc, served, request, data, surah, ayah, ayah_text,
          src_i, collected_data, tafsir_data, response, prompt,
          chat_completion, calls, result, raised>>

locals == <<data, surah, ayah, ayah_text, src_i, collected_data, tafsir_data,
            response, prompt, chat_completion>>

EmptyDict == [k \in {} |-> <<>>]

Call(api, source, s, a, p) ==
    [api |-> api, source |-> source, surah |-> s, ayah |-> a, prompt |-> p]

Result(status, key, error, explanation, by) ==
    [status |-> status, key |-> key, error |-> error,
     explanation |-> explanation, by |-> by]

NoResult == Result(0, "none", <<>>, <<>>, "none")

NoRaise == [exc |-> "none", in |-> "none"]

\* jsonify({"error": msg}), status
ErrorResult(status, msg) == Result(status, "error", msg, <<>>, "handler")

\* an exception that leaves explain_ayah: Flask answers 500 for the handler
Escaped(e) ==
    Result(500, "html", <<e>>, <<>>, "framework")

\* ---------------------------------------------------------- pure functions
\* requests.get + raise_for_status + response.json: the RequestException
\* they raise, "none" when the payload was decoded
RequestException(r) ==
    IF r.err # "none" THEN r.err
    ELSE IF r.status >= 400 /\ r.status < 600 THEN "HTTPError"
    ELSE IF ~r.json_ok THEN "JSONDecodeError"
    ELSE "none"

\* get_ayah_text on the answer r of its GET: the value returned or the
\* exception that leaves the function
get_ayah_text(r) ==
    IF RequestException(r) # "none" THEN Return(JStr(NETWORK_ERROR))
    ELSE IF r.top # "object" THEN Raise("AttributeError")
    ELSE IF r.code # 200 THEN Return(JStr(NOT_RETRIEVED))
    ELSE IF r.data_t = "missing" THEN Return(JStr(NOT_RETRIEVED))
    ELSE IF r.data_t # "object" THEN Raise("AttributeError")
    ELSE IF r.has_text /\ Truthy(r.text) THEN Return(r.text)
    ELSE Return(JStr(NOT_RETRIEVED))

\* one iteration of the loop of get_tafsir_data on the answer r of its GET
tafsir_text(r) ==
    IF RequestException(r) # "none" THEN Return(JStr(DATA_UNAVAILABLE_MESSAGE))
    ELSE IF r.top # "object" THEN Raise("AttributeError")
    ELSE LET text == IF r.has_text THEN r.text ELSE JStr(<<>>)
         IN  IF text.t # "str" THEN Raise("AttributeError")
             ELSE IF Strip(text.s) # <<>> THEN Return(JStr(Strip(text.s)))
             ELSE Return(JStr(DATA_UNAVAILABLE_MESSAGE))

\* dict.get(k): None when the key is absent
DictGet(d, k) == IF k \in DOMAIN d THEN JStr(d[k]) ELSE JNull

DictPut(d, k, v) == [x \in DOMAIN d \cup {k} |-> IF x = k THEN v ELSE d[x]]

\* The prompt as the sequence of its segments: literal template text
\* alternating with the interpolated fields.
generate_explanation_prompt(s, a, text, tafsir) ==
    << <<"You are a helpful and knowledgeable assistant ... for Surah ">>,
       PyStr(s), <<", Ayah ">>, PyStr(a),
       <<"... heading ### The Verse (Surah ">>, PyStr(s), <<": Ayah ">>, PyStr(a),
       <<") ... **[Verse Translation]:**">>, PyStr(text),
       <<"**[Al-Wahidi's Asbab Al-Nuzul]:**">>, PyStr(DictGet(tafsir, "context")),
       <<"**[Tafsir Ibn Kathir]:**">>, PyStr(DictGet(tafsir, "classical")),
       <<"**[Maarif-ul-Quran]:**">>, PyStr(DictGet(tafsir, "modern")),
       <<"--- Begin your response now.">> >>

\* "not data"
Falsy(d) == d.t = "null" \/ d.n = 0

\* str(e) of the exception caught at line 141
Cause(c) ==
    IF c.err # "none" THEN <<c.err>> ELSE <<"list index out of range">>

\* ------------------------------------------------------------------ actions
Init ==
    /\ groq_client \in {"Groq", "None"}
    /\ pc = "idle"
    /\ served = 0
    /\ request = NoData
    /\ data = NoData
    /\ surah = JNull
    /\ ayah = JNull
    /\ ayah_text = JNull
    /\ src_i = 0
    /\ collected_data = EmptyDict
    /\ tafsir_data = EmptyDict
    /\ response = NoResponse
    /\ prompt = <<>>
    /\ chat_completion = NoCompletion
    /\ calls = <<>>
    /\ result = NoResult
    /\ raised = NoRaise

\* a POST /explain with body b arrives
Request(b) ==
    /\ pc = "idle"
    /\ served < MaxRequests
    /\ request' = b
    /\ pc' = "check_client"
    /\ data' = NoData
    /\ surah' = JNull
    /\ ayah' = JNull
    /\ ayah_text' = JNull
    /\ src_i' = 0
    /\ collected_data' = EmptyDict
    /\ tafsir_data' = EmptyDict
    /\ response' = NoResponse
    /\ prompt' = <<>>
    /\ chat_completion' = NoCompletion
    /\ calls' = <<>>
    /\ result' = NoResult
    /\ raised' = NoRaise
    /\ UNCHANGED <<groq_client, served>>

\* the handler returns res
Respond(res) ==
    /\ result' = res
    /\ pc' = "done"
    /\ UNCHANGED raised

\* exception e leaves the handler at the step named where
Escape(e, where) ==
    /\ raised' = [exc |-> e, in |-> where]
    /\ result' = Escaped(e)
    /\ pc' = "done"

Continue(next) ==
    /\ pc' = next
    /\ UNCHANGED <<result, raised>>

\* CheckClient without the early return of line 115
CheckClient_NoGuard ==
    /\ pc = "check_client"
    /\ Continue("get_json")
    /\ UNCHANGED <<groq_client, served, request, locals, calls>>

CheckClient ==
    /\ pc = "check_client"
    /\ IF groq_client = "None"
       THEN Respond(ErrorResult(500, CLIENT_ERROR))
       ELSE Continue("get_json")
    /\ UNCHANGED <<groq_client, served, request, locals, calls>>

GetJson ==
    /\ pc = "get_json"
    /\ data' = request
    /\ Continue("check_fields")
    /\ UNCHANGED <<groq_client, served, request, surah, ayah, ayah_text, src_i,
                   collected_data, tafsir_data, response, prompt,
                   chat_completion, calls>>

CheckFields ==
    /\ pc = "check_fields"
    /\ IF Falsy(data) THEN Respond(ErrorResult(400, MISSING_ERROR))
       ELSE IF data.t \in {"boolean", "number"}
       THEN Escape("TypeError", "check_fields")
       ELSE IF "surah" \notin data.keys \/ "ayah" \notin data.keys
       THEN Respond(ErrorResult(400, MISSING_ERROR))
       ELSE Continue("convert")
    /\ UNCHANGED <<groq_client, served, request, locals, calls>>

\* ConvertFields with the translation fetch moved into the try block, ahead
\* of the conversions
ConvertFields_FetchFirst ==
    /\ pc = "convert"
    /\ LET s == IF data.t = "object" THEN PyInt(data.surah) ELSE Raise("TypeError")
           a == IF data.t = "object" THEN PyInt(data.ayah) ELSE Raise("TypeError")
           e == IF s.exc # "none" THEN s.exc ELSE a.exc
       IN  /\ surah' = IF s.exc = "none" THEN s.val ELSE surah
           /\ ayah' = IF e = "none" THEN a.val ELSE ayah
           /\ IF e = "none"
              THEN Continue("get_ayah_text") /\ UNCHANGED calls
              ELSE /\ calls' = Append(calls, Call("translation", "", surah, ayah, <<>>))
                   /\ IF e \in {"ValueError", "TypeError"}
                      THEN Respond(ErrorResult(400, NUMBERS_ERROR))
                      ELSE Escape(e, "convert")
    /\ UNCHANGED <<groq_client, served, request, data, ayah_text, src_i,
                   collected_data, tafsir_data, response, prompt,
                   chat_completion>>

ConvertFields ==
    /\ pc = "convert"
    /\ LET s == IF data.t = "object" THEN PyInt(data.surah) ELSE Raise("TypeError")
           a == IF data.t = "object" THEN PyInt(data.ayah) ELSE Raise("TypeError")
           e == IF s.exc # "none" THEN s.exc ELSE a.exc
       IN  /\ surah' = IF s.exc = "none" THEN s.val ELSE surah
           /\ ayah' = IF e = "none" THEN a.val ELSE ayah
           /\ IF e = "none" THEN Continue("get_ayah_text")
              ELSE IF e \in {"ValueError", "TypeError"}
              THEN Respond(ErrorResult(400, NUMBERS_ERROR))
              ELSE Escape(e, "convert")
    /\ UNCHANGED <<groq_client, served, request, data, ayah_text, src_i,
                   collected_data, tafsir_data, response, prompt,
                   chat_completion, calls>>

GetAyahText(r) ==
    /\ pc = "get_ayah_text"
    /\ calls' = Append(calls, Call("translation", "", surah, ayah, <<>>))
    /\ response' = r
    /\ LET res == get_ayah_text(r)
       IN  IF res.exc = "none"
           THEN /\ ayah_text' = res.val
                /\ src_i' = 1
                /\ Continue("get_tafsir_data")
           ELSE /\ Escape(res.exc, "get_ayah_text")
                /\ UNCHANGED <<ayah_text, src_i>>
    /\ UNCHANGED <<groq_client, served, request, data, surah, ayah,
                   collected_data, tafsir_data, prompt, chat_completion>>

\* GetTafsirSource retrying a source once after a RequestException
GetTafsirSource_Retry(r) ==
    /\ pc = "get_tafsir_data"
    /\ LET source_name == TAFSIR_SOURCES[src_i]
           res == tafsir_text(r)
           again == /\ RequestException(r) # "none"
                    /\ calls[Len(calls)].source # source_name
       IN  /\ calls' = Append(calls, Call("tafsir", source_name, surah, ayah, <<>>))
           /\ response' = r
           /\ IF again
              THEN /\ Continue("get_tafsir_data")
                   /\ UNCHANGED <<src_i, collected_data, tafsir_data>>
              ELSE IF res.exc # "none"
              THEN /\ Escape(res.exc, "get_tafsir_data")
                   /\ UNCHANGED <<src_i, collected_data, tafsir_data>>
              ELSE /\ collected_data' = DictPut(collected_data, source_name, res.val.s)
                   /\ IF src_i < Len(TAFSIR_SOURCES)
                      THEN /\ src_i' = src_i + 1
                           /\ Continue("get_tafsir_data")
                           /\ UNCHANGED tafsir_data
                      ELSE /\ tafsir_data' = collected_data'
                           /\ Continue("generate_prompt")
                           /\ UNCHANGED src_i
    /\ UNCHANGED <<groq_client, served, request, data, surah, ayah, ayah_text,
                   prompt, chat_completion>>

GetTafsirSource(r) ==
    /\ pc = "get_tafsir_data"
    /\ LET source_name == TAFSIR_SOURCES[src_i]
           res == tafsir_text(r)
       IN  /\ calls' = Append(calls, Call("tafsir", source_name, surah, ayah, <<>>))
           /\ response' = r
           /\ IF res.exc # "none"
              THEN /\ Escape(res.exc, "get_tafsir_data")
                   /\ UNCHANGED <<src_i, collected_data, tafsir_data>>
              ELSE /\ collected_data' = DictPut(collected_data, source_name, res.val.s)
                   /\ IF src_i < Len(TAFSIR_SOURCES)
                      THEN /\ src_i' = src_i + 1
                           /\ Continue("get_tafsir_data")
                           /\ UNCHANGED tafsir_data
                      ELSE /\ tafsir_data' = collected_data'
                           /\ Continue("generate_prompt")
                           /\ UNCHANGED src_i
    /\ UNCHANGED <<groq_client, served, request, data, surah, ayah, ayah_text,
                   prompt, chat_completion>>

GeneratePrompt ==
    /\ pc = "generate_prompt"
    /\ prompt' = generate_explanation_prompt(surah, ayah, ayah_text, tafsir_data)
    /\ Continue("create")
    /\ UNCHANGED <<groq_client, served, request, data, surah, ayah, ayah_text,
                   src_i, collected_data, tafsir_data, response,
                   chat_completion, calls>>

\* CreateCompletion returning the stripped content
CreateCompletion_Strip(c) ==
    /\ pc = "create"
    /\ calls' = Append(calls, Call("completion", "", JNull, JNull, prompt))
    /\ chat_completion' = c
    /\ IF c.err = "none" /\ c.n_choices > 0
       THEN Respond(Result(200, "explanation", <<>>, Strip(c.content), "handler"))
       ELSE Respond(ErrorResult(500, MODEL_ERROR \o Cause(c)))
    /\ UNCHANGED <<groq_client, served, request, data, surah, ayah, ayah_text,
                   src_i, collected_data, tafsir_data, response, prompt>>

CreateCompletion(c) ==
    /\ pc = "create"
    /\ calls' = Append(calls, Call("completion", "", JNull, JNull, prompt))
    /\ chat_completion' = c
    /\ IF c.err = "none" /\ c.n_choices > 0
       THEN Respond(Result(200, "explanation", <<>>, c.content, "handler"))
       ELSE Respond(ErrorResult(500, MODEL_ERROR \o Cause(c)))
    /\ UNCHANGED <<groq_client, served, request, data, surah, ayah, ayah_text,
                   src_i, collected_data, tafsir_data, response, prompt>>

\* the response is sent; the worker is free for the next request
Finish ==
    /\ pc = "done"
    /\ pc' = "idle"
    /\ served' = served + 1
    /\ UNCHANGED <<groq_client, request, locals, calls, result, raised>>

Next ==
    \/ \E b \in Bodies : Request(b)
    \/ CheckClient
    \/ GetJson
    \/ CheckFields
    \/ ConvertFields
    \/ \E r \in TranslationResponses : GetAyahText(r)
    \/ \E r \in TafsirResponses : GetTafsirSource(r)
    \/ GeneratePrompt
    \/ \E c \in Completions : CreateCompletion(c)
    \/ Finish

Spec == Init /\ [][Next]_vars

TypeOK ==
    /\ groq_client \in {"Groq", "None"}
    /\ served \in 0..MaxRequests
    /\ src_i \in 0..Len(TAFSIR_SOURCES)
    /\ result.status \in {0, 200, 400, 500}

\* ------------------------------------------------------------------ claims
MissingField(b) ==
    b.t # "object" \/ "surah" \notin b.keys \/ "ayah" \notin b.keys

NotConvertible(b) ==
    /\ ~MissingField(b)
    /\ PyInt(b.surah).exc # "none" \/ PyInt(b.ayah).exc # "none"

InputError(b) == MissingField(b) \/ NotConvertible(b)

ValidBody(b) == ~InputError(b)

Answered == pc = "done" \/ (pc = "idle" /\ served > 0)

IsFetch(c) == c.api \in {"translation", "tafsir"}

CompletionIssued == \E i \in 1..Len(calls) : calls[i].api = "completion"

\* C1: every request whose body lacks surah or ayah, or whose surah or ayah
\* does not convert to an integer, is answered with status 400, whether or
\* not the completion client was initialized.
C1_InputErrorIs400 ==
    (Answered /\ InputError(request)) => result.status = 400

\* C2: when groq_client is None every request, whatever its body, is answered
\* 500 with the client-unavailable error and issues no fetch and no
\* completion call; no step of any request changes groq_client.
C2_NoClientAlways500 ==
    /\ [](groq_client = "None" =>
            /\ calls = <<>>
            /\ Answered => result = ErrorResult(500, CLIENT_ERROR))
    /\ [][groq_client' = groq_client]_vars

\* a second request, with a valid body, was answered while the client is None
C2_Witness ==
    /\ groq_client = "None"
    /\ served = 1
    /\ pc = "done"
    /\ ValidBody(request)
    /\ result.status = 500

\* C3: a request answered 400 has issued no outbound call, neither before the
\* answer nor after it.
C3_InputErrorNoCalls == result.status = 400 => calls = <<>>

\* a non-numeric surah was answered 400 and the response has been sent
C3_Witness ==
    /\ pc = "idle"
    /\ served > 0
    /\ result = ErrorResult(400, NUMBERS_ERROR)
    /\ NotConvertible(request)

\* C4: no exception ever leaves explain_ayah: every request ends with a
\* 200, 400 or 500 answer built by the handler itself.
C4_NoEscape ==
    /\ raised.exc = "none"
    /\ Answered => (result.by = "handler" /\ result.status \in {200, 400, 500})

\* C5: get_ayah_text never raises: for every answer of the lookup it returns
\* the translation text or one of the two fallback strings.
C5_AyahTextNeverRaises ==
    /\ raised.in # "get_ayah_text"
    /\ pc = "get_tafsir_data" => ayah_text.t = "str" /\ ayah_text.s # <<>>

\* C6: get_tafsir_data never raises and returns exactly the keys context,
\* classical and modern, each with a non-empty text, whatever the three
\* sources answer.
C6_TafsirAlwaysThreeKeys ==
    /\ raised.in # "get_tafsir_data"
    /\ pc = "generate_prompt" =>
            /\ DOMAIN tafsir_data = {"context", "classical", "modern"}
            /\ \A k \in DOMAIN tafsir_data : tafsir_data[k] # <<>>

\* C7: the fetchers are only called with a positive surah and a positive ayah.
C7_FetchersGetPositive ==
    \A i \in 1..Len(calls) :
        IsFetch(calls[i]) => (calls[i].surah.n > 0 /\ calls[i].ayah.n > 0)

\* C8: a valid request with an initialized client always reaches the
\* completion call and is answered by the handler, whatever the translation
\* and commentary fetches answered.
C8_FetchFailuresAbsorbed ==
    (Answered /\ groq_client = "Groq" /\ ValidBody(request)) =>
        (CompletionIssued /\ result.by = "handler")

ExpectedCalls ==
    << <<"translation", "">>, <<"tafsir", "context">>, <<"tafsir", "classical">>,
       <<"tafsir", "modern">>, <<"completion", "">> >>

C10_CallsInOrderOnce ==
    /\ Len(calls) <= Len(ExpectedCalls)
    /\ \A i \in 1..Len(calls) :
          /\ <<calls[i].api, calls[i].source>> = ExpectedCalls[i]
          /\ calls[i].api = "completion" =>
                (prompt # <<>> /\ calls[i].prompt = prompt)

\* all five calls were made, although two fetches failed and the completion
\* call failed too
C10_Witness ==
    /\ Len(calls) = 5
    /\ ayah_text.s = NETWORK_ERROR
    /\ tafsir_data["classical"] = DATA_UNAVAILABLE_MESSAGE
    /\ result.status = 500

====
